---------------------------- MODULE Spec2Model ----------------------------
(***************************************************************************)
(* A model of the executable content of the classiq-library notebooks:     *)
(*   - the Quantum Volume notebook (qv_layer, qv_model, execute_qv,        *)
(*     heavy_outputs_prob, round_significant, find_qv),                    *)
(*   - the Shor notebook (register sizes, the modular multiplication       *)
(*     matrix, the classical steps of the algorithm),                      *)
(*   - the Learning Optimization tutorial (the Pyomo problem),             *)
(*   - the sequence of platform calls every notebook makes.                *)
(* The platform itself (synthesis, execution) is external: what it returns *)
(* is a nondeterministic choice.  Floating point values are modelled by    *)
(* exact rationals and surds (sqrt(rad)/den), compared exactly.            *)
(***************************************************************************)
EXTENDS Integers, Sequences, FiniteSets, TLC

VARIABLES
  \* ---- the notebook being run and its platform objects
  nb, pc, env, cell, last_call,
  \* ---- find_qv: parameters and locals
  num_trials, num_shots, min_qubits, max_qubits,
  num, idx, heavy_outputs, heavytostd, heavy_list, std_list,
  qubit_v, qv, model, qprog, results, heavy_temp,
  \* ---- qv_model / qv_layer
  N, mpc, target, layer, qubit_list, lidx, ops, unitaries,
  \* ---- Shor notebook
  spc, a, r, x, fx, factors, qv_auxilliary, applied,
  \* ---- Shor register sizes
  rpc, shorN, num_counting_qubits, num_auxilliary_qubits,
  \* ---- Learning Optimization tutorial
  opc, solution

nbVars    == <<nb, pc, env, cell, last_call>>
findVars  == <<num_trials, num_shots, min_qubits, max_qubits, num, idx,
               heavy_outputs, heavytostd, heavy_list, std_list, qubit_v, qv,
               model, qprog, results, heavy_temp>>
modelVars == <<N, mpc, target, layer, qubit_list, lidx, ops, unitaries>>
shorVars  == <<spc, a, r, x, fx, factors, qv_auxilliary, applied>>
regVars   == <<rpc, shorN, num_counting_qubits, num_auxilliary_qubits>>
optVars   == <<opc, solution>>
vars      == <<nbVars, findVars, modelVars, shorVars, regVars, optVars>>

-----------------------------------------------------------------------------
(* Bounds of the model *)

MaxTrials == 2
MaxShots == 5
MaxQubits == 3
MaxN == 4
MaxApply == 8
MaxShorN == 60
MaxSamples == 3

-----------------------------------------------------------------------------
(* Arithmetic helpers *)

RECURSIVE Pow(_, _)
Pow(b, e) == IF e = 0 THEN 1 ELSE b * Pow(b, e - 1)

RECURSIVE SumSeq(_)
SumSeq(s) == IF s = <<>> THEN 0 ELSE Head(s) + SumSeq(Tail(s))

RECURSIVE SumSqSeq(_)
SumSqSeq(s) == IF s = <<>> THEN 0 ELSE Head(s) * Head(s) + SumSqSeq(Tail(s))

\* a Python float that is the quotient n / d of two integers
Rat(n, d) == [num |-> n, den |-> d]

\* a Python float that is sqrt(rad) / den
Surd(rad, den) == [rad |-> rad, den |-> den]

SurdEq(s, t) == s.rad * t.den * t.den = t.rad * s.den * s.den

\* np.zeros(n)
RatZeros(n) == [i \in 1..n |-> Rat(0, 1)]
SurdZeros(n) == [i \in 1..n |-> Surd(0, 1)]
IntZeros(n) == [i \in 1..n |-> 0]

-----------------------------------------------------------------------------
(* Platform objects.  A value is what a Python name is bound to: nothing,  *)
(* a model, a quantum program or execution results; origin is the call     *)
(* that produced it and tag says where (a source line, or <<num, idx>> for *)
(* a trial of find_qv).                                                    *)

None == [kind |-> "none", origin |-> "none", tag |-> <<>>]

Value(kind, origin, tag) == [kind |-> kind, origin |-> origin, tag |-> tag]

Call(op, arg) == [op |-> op, arg |-> arg]

\* synthesize(model): the platform compiles a model into a quantum program
synthesize(m) ==
  IF m.kind = "model" THEN Value("qprog", "synthesize", m.tag)
  ELSE Value("error", "synthesize", m.tag)

\* set_quantum_program_execution_preferences(qprog, prefs): the same
\* program, carrying the preferences
set_quantum_program_execution_preferences(q) ==
  IF q.kind = "qprog" THEN q
  ELSE Value("error", "set_quantum_program_execution_preferences", q.tag)

-----------------------------------------------------------------------------
(* Quantum Volume notebook: execution results and heavy_outputs_prob *)

\* All lists of positive counts that add up to `shots`, with at most
\* `maxlen` measured states: the values of results.counts.
RECURSIVE Counts(_, _)
Counts(shots, maxlen) ==
  IF shots = 0 THEN {<<>>}
  ELSE IF maxlen = 0 THEN {}
  ELSE UNION {{<<c>> \o rest : rest \in Counts(shots - c, maxlen - 1)} :
              c \in 1..shots}

\* twice np.median(d): the middle of the sorted list, or the sum of the two
\* middle elements when the length is even
Median2(d) ==
  LET sorted == SortSeq(d, LAMBDA u, v : u < v)
      n == Len(d)
  IN IF n % 2 = 1 THEN 2 * sorted[(n + 1) \div 2]
     ELSE sorted[n \div 2] + sorted[n \div 2 + 1]

\* the loop of heavy_outputs_prob: adds every item with item >= med
RECURSIVE HeavyLoop(_, _)
HeavyLoop(d, med2) ==
  IF d = <<>> THEN 0
  ELSE (IF 2 * Head(d) >= med2 THEN Head(d) ELSE 0) + HeavyLoop(Tail(d), med2)

\* the same loop keeping only the items strictly above the median, divided
\* by nothing: the number of shots on states above the median
RECURSIVE AboveMedianLoop(_, _)
AboveMedianLoop(d, med2) ==
  IF d = <<>> THEN 0
  ELSE (IF 2 * Head(d) > med2 THEN Head(d) ELSE 0)
       + AboveMedianLoop(Tail(d), med2)

heavy_outputs_prob(res) == HeavyLoop(res.counts, Median2(res.counts))

\* np.std(xs): sqrt(mean(x^2) - mean(x)^2) = sqrt(n*sum(x^2) - sum(x)^2) / n
np_std(xs) ==
  Surd(Len(xs) * SumSqSeq(xs) - SumSeq(xs) * SumSeq(xs), Len(xs))

SurdDiv(s, k) == Surd(s.rad, s.den * k)

\* h - 2 * sd >= 2 / 3 for a rational h and a surd sd, in exact arithmetic:
\* with A = 3*h.num*sd.den - 2*h.den*sd.den the test is A >= 6*h.den*sqrt(rad)
TwoSigmaTest(h, sd) ==
  LET A == 3 * h.num * sd.den - 2 * h.den * sd.den
  IN A >= 0 /\ A * A >= 36 * h.den * h.den * sd.rad

\* round_significant(x) evaluates log10(abs(x)): a ValueError for x = 0
round_significant_raises(sd) == sd.rad = 0

-----------------------------------------------------------------------------
(* The platform calls of every notebook, in cell order.  A statement is    *)
(* out = op(arg) at a source line; arg and out are Python names ("" when   *)
(* the call takes no platform object or binds no name).                    *)

Stmt(op, arg, out, line) == [op |-> op, arg |-> arg, out |-> out, line |-> line]

\* one example of a function-usage notebook: create_model, write_qmod,
\* synthesize and, when exe > 0, execute
Example(cm, wq, syn, exe) ==
  <<Stmt("create_model", "", "qmod", cm),
    Stmt("write_qmod", "qmod", "", wq),
    Stmt("synthesize", "qmod", "qprog", syn)>>
  \o (IF exe > 0 THEN <<Stmt("execute", "qprog", "result", exe)>> ELSE <<>>)

ShorCalls_show_model ==
  <<Stmt("create_model", "", "qmod", 246),
    Stmt("write_qmod", "qmod", "", 265),
    Stmt("synthesize", "qmod", "qprog", 293),
    Stmt("show", "qmod", "", 329),
    Stmt("execute", "qprog", "results", 361)>>

ShorCalls ==
  <<Stmt("create_model", "", "qmod", 246),
    Stmt("write_qmod", "qmod", "", 265),
    Stmt("synthesize", "qmod", "qprog", 293),
    Stmt("show", "qprog", "", 329),
    Stmt("execute", "qprog", "results", 361)>>

LearningOptimizationCalls ==
  <<Stmt("construct_combinatorial_optimization_model", "", "model", 304),
    Stmt("synthesize", "model", "qprog", 341),
    Stmt("execute", "qprog", "res", 366),
    Stmt("show", "qprog", "", 547),
    Stmt("construct_combinatorial_optimization_model", "", "model", 653),
    Stmt("synthesize", "model", "qprog", 659),
    Stmt("execute", "qprog", "res", 662),
    Stmt("show", "qprog", "", 682)>>

GroverCalls ==
  <<Stmt("construct_grover_model", "", "qmod", 83),
    Stmt("write_qmod", "qmod", "", 102),
    Stmt("synthesize", "qmod", "qprog", 130),
    Stmt("show", "qprog", "", 155),
    Stmt("set_quantum_program_execution_preferences", "qprog", "qprog", 203),
    Stmt("execute", "qprog", "optimization_result", 204)>>

SubtractionCalls == Example(61, 81, 82, 84) \o Example(115, 135, 136, 138)

ExtremumCalls ==
  Example(57, 87, 88, 90) \o Example(134, 164, 165, 167)
  \o Example(273, 294, 295, 297) \o Example(330, 353, 354, 356)
  \o Example(433, 463, 464, 466)

ComparatorCalls == Example(66, 78, 79, 0) \o Example(119, 149, 150, 152)

UnitaryCalls == Example(52, 66, 67, 0)

SuzukiTrotterCalls == Example(69, 70, 71, 0)

LinearPauliRotationsCalls == Example(106, 118, 119, 0)

Notebooks ==
  {"shor", "learning_optimization", "grover", "subtraction", "extremum",
   "comparator", "unitary", "suzuki_trotter", "linear_pauli_rotations"}

Calls(n) ==
  CASE n = "shor" -> ShorCalls
    [] n = "learning_optimization" -> LearningOptimizationCalls
    [] n = "grover" -> GroverCalls
    [] n = "subtraction" -> SubtractionCalls
    [] n = "extremum" -> ExtremumCalls
    [] n = "comparator" -> ComparatorCalls
    [] n = "unitary" -> UnitaryCalls
    [] n = "suzuki_trotter" -> SuzukiTrotterCalls
    [] n = "linear_pauli_rotations" -> LinearPauliRotationsCalls

Names ==
  {"qmod", "model", "qprog", "result", "results", "res", "optimization_result"}

EmptyEnv == [n \in Names |-> None]

Constructors ==
  {"create_model", "construct_grover_model",
   "construct_combinatorial_optimization_model"}

\* the value a platform call returns
Returned(st, v) ==
  IF st.op \in Constructors THEN Value("model", st.op, <<st.line>>)
  ELSE IF st.op = "synthesize" THEN synthesize(v)
  ELSE IF st.op = "set_quantum_program_execution_preferences"
    THEN set_quantum_program_execution_preferences(v)
  ELSE IF st.op = "execute"
    THEN (IF v.kind = "qprog" THEN Value("results", "execute", v.tag)
          ELSE Value("error", "execute", v.tag))
  ELSE IF st.op = "show"
    THEN (IF v.kind = "qprog" THEN None ELSE Value("error", "show", v.tag))
  ELSE (IF v.kind = "model" THEN None ELSE Value("error", "write_qmod", v.tag))

-----------------------------------------------------------------------------
(* Values of the variables a specification does not use *)

NoResults == [of |-> <<>>, counts |-> <<>>]

IdleNb ==
  /\ nb = "" /\ pc = "idle" /\ env = EmptyEnv /\ cell = 0
  /\ last_call = Call("none", None)

IdleFind ==
  /\ num_trials = 0 /\ num_shots = 0 /\ min_qubits = 0 /\ max_qubits = 0
  /\ num = 0 /\ idx = 0 /\ heavy_outputs = 0 /\ heavytostd = <<>>
  /\ heavy_list = <<>> /\ std_list = <<>> /\ qubit_v = 0 /\ qv = 0
  /\ model = None /\ qprog = None /\ results = NoResults /\ heavy_temp = 0

IdleModel ==
  /\ N = 0 /\ mpc = "idle" /\ target = 0 /\ layer = 0 /\ qubit_list = <<>>
  /\ lidx = 0 /\ ops = <<>> /\ unitaries = 0

IdleShor ==
  /\ spc = "idle" /\ a = 0 /\ r = 0 /\ x = 0 /\ fx = 0 /\ factors = <<>>
  /\ qv_auxilliary = 0 /\ applied = 0

IdleReg ==
  /\ rpc = "idle" /\ shorN = 0 /\ num_counting_qubits = 0
  /\ num_auxilliary_qubits = 0

IdleOpt == opc = "idle" /\ solution = {}

-----------------------------------------------------------------------------
(* Running a notebook: one platform call per step *)

MinQubits == 2

InitNotebook ==
  /\ nb \in Notebooks
  /\ pc = "cell" /\ cell = 1 /\ env = EmptyEnv
  /\ last_call = Call("none", None)
  /\ IdleFind

\* find_qv(num_trials, num_shots, min_qubits, max_qubits, preferences) after
\* its initialization block
InitFindQv ==
  /\ nb = "quantum_volume"
  /\ pc = "for_num" /\ cell = 0 /\ env = EmptyEnv
  /\ last_call = Call("none", None)
  /\ num_trials \in 1..MaxTrials
  /\ num_shots \in 1..MaxShots
  /\ min_qubits \in MinQubits..MaxQubits
  /\ max_qubits \in min_qubits..MaxQubits
  /\ num = min_qubits /\ idx = 0 /\ heavy_outputs = 0
  /\ heavytostd = IntZeros(num_trials)
  /\ heavy_list = RatZeros(max_qubits - min_qubits + 1)
  /\ std_list = SurdZeros(max_qubits - min_qubits + 1)
  /\ qubit_v = 0 /\ qv = 0
  /\ model = None /\ qprog = None /\ results = NoResults /\ heavy_temp = 0

Init ==
  /\ (InitNotebook \/ InitFindQv)
  /\ IdleModel /\ IdleShor /\ IdleReg /\ IdleOpt

\* the next statement of the notebook: a NameError when its argument is not
\* bound, otherwise the call is made and its result bound
NotebookStep ==
  /\ pc = "cell"
  /\ LET st == Calls(nb)[cell]
         v == IF st.arg = "" THEN None ELSE env[st.arg]
         ret == Returned(st, v)
     IN IF st.arg # "" /\ v = None
        THEN /\ pc' = "raised"
             /\ UNCHANGED <<env, cell, last_call>>
        ELSE /\ last_call' = Call(st.op, v)
             /\ env' = IF st.out = "" THEN env ELSE [env EXCEPT ![st.out] = ret]
             /\ cell' = cell + 1
             /\ pc' = IF ret.kind = "error" THEN "raised"
                      ELSE IF cell = Len(Calls(nb)) THEN "done" ELSE "cell"
  /\ UNCHANGED <<nb, findVars, modelVars, shorVars, regVars, optVars>>

-----------------------------------------------------------------------------
(* find_qv, one action per statement of its loops *)

findRest == <<nb, env, cell, modelVars, shorVars, regVars, optVars>>

\* for num in tqdm(qubit_num): heavy_outputs = 0; heavytostd = np.zeros(..)
ForNum ==
  /\ nb = "quantum_volume" /\ pc = "for_num"
  /\ heavy_outputs' = 0
  /\ heavytostd' = IntZeros(num_trials)
  /\ idx' = 0
  /\ pc' = "qv_model"
  /\ UNCHANGED <<num_trials, num_shots, min_qubits, max_qubits, num,
                 heavy_list, std_list, qubit_v, qv, model, qprog, results,
                 heavy_temp, last_call, findRest>>

\* model = qv_model(num): the model of this trial
TrialModel ==
  /\ nb = "quantum_volume" /\ pc = "qv_model"
  /\ model' = Value("model", "create_model", <<num, idx>>)
  /\ last_call' = Call("create_model", None)
  /\ pc' = "synthesize"
  /\ UNCHANGED <<num_trials, num_shots, min_qubits, max_qubits, num, idx,
                 heavy_outputs, heavytostd, heavy_list, std_list, qubit_v, qv,
                 qprog, results, heavy_temp, findRest>>

\* qprog = synthesize(model)
TrialSynthesize ==
  /\ nb = "quantum_volume" /\ pc = "synthesize"
  /\ qprog' = synthesize(model)
  /\ last_call' = Call("synthesize", model)
  /\ pc' = "set_preferences"
  /\ UNCHANGED <<num_trials, num_shots, min_qubits, max_qubits, num, idx,
                 heavy_outputs, heavytostd, heavy_list, std_list, qubit_v, qv,
                 model, results, heavy_temp, findRest>>

\* execute_qv, first statement: qprog = set_quantum_program_execution_..(..)
ExecuteQvPreferences ==
  /\ nb = "quantum_volume" /\ pc = "set_preferences"
  /\ qprog' = set_quantum_program_execution_preferences(qprog)
  /\ last_call' = Call("set_quantum_program_execution_preferences", qprog)
  /\ pc' = "execute"
  /\ UNCHANGED <<num_trials, num_shots, min_qubits, max_qubits, num, idx,
                 heavy_outputs, heavytostd, heavy_list, std_list, qubit_v, qv,
                 model, results, heavy_temp, findRest>>

\* execute_qv, second statement: results = execute(qprog).result(); the
\* counts are the platform's: num_shots shots over at most 2^num states
ExecuteQvExecute ==
  /\ nb = "quantum_volume" /\ pc = "execute"
  /\ \E c \in Counts(num_shots, Pow(2, num)) :
       results' = [of |-> qprog.tag, counts |-> c]
  /\ last_call' = Call("execute", qprog)
  /\ pc' = "heavy"
  /\ UNCHANGED <<num_trials, num_shots, min_qubits, max_qubits, num, idx,
                 heavy_outputs, heavytostd, heavy_list, std_list, qubit_v, qv,
                 model, qprog, heavy_temp, findRest>>

\* heavy_temp = heavy_outputs_prob(results); heavy_outputs += heavy_temp;
\* heavytostd[idx] = heavy_temp; and the next trial
TrialHeavy ==
  /\ nb = "quantum_volume" /\ pc = "heavy"
  /\ heavy_temp' = heavy_outputs_prob(results)
  /\ heavy_outputs' = heavy_outputs + heavy_temp'
  /\ heavytostd' = [heavytostd EXCEPT ![idx + 1] = heavy_temp']
  /\ idx' = idx + 1
  /\ pc' = IF idx + 1 < num_trials THEN "qv_model" ELSE "stats"
  /\ UNCHANGED <<num_trials, num_shots, min_qubits, max_qubits, num,
                 heavy_list, std_list, qubit_v, qv, model, qprog, results,
                 last_call, findRest>>

\* the standard deviation find_qv stores for the trials of one qubit number
StoredStd(trials, n_trials, n_shots) ==
  SurdDiv(np_std(trials), n_trials * n_shots)

\* s = num - min_qubits; heavy_list[s] = ...; std = ...; std_list[s] = std
Stats ==
  /\ nb = "quantum_volume" /\ pc = "stats"
  /\ LET s == num - min_qubits + 1
     IN /\ heavy_list' = [heavy_list EXCEPT
                            ![s] = Rat(heavy_outputs, num_trials * num_shots)]
        /\ std_list' = [std_list EXCEPT
                          ![s] = StoredStd(heavytostd, num_trials, num_shots)]
  /\ pc' = "print"
  /\ UNCHANGED <<num_trials, num_shots, min_qubits, max_qubits, num, idx,
                 heavy_outputs, heavytostd, qubit_v, qv, model, qprog,
                 results, heavy_temp, last_call, findRest>>

\* temp_std = round_significant(std); print(..); and the next qubit number,
\* or the second loop from min_qubits
PrintStats ==
  /\ nb = "quantum_volume" /\ pc = "print"
  /\ IF round_significant_raises(std_list[num - min_qubits + 1])
     THEN pc' = "raised" /\ num' = num
     ELSE IF num < max_qubits
     THEN pc' = "for_num" /\ num' = num + 1
     ELSE pc' = "determine" /\ num' = min_qubits
  /\ UNCHANGED <<num_trials, num_shots, min_qubits, max_qubits, idx,
                 heavy_outputs, heavytostd, heavy_list, std_list, qubit_v, qv,
                 model, qprog, results, heavy_temp, last_call, findRest>>

\* heavy_is = heavy_list[s] - 2 * (std_list[s]); heavy_is >= 2 / 3
HeavyIs(hl, sl, s) == TwoSigmaTest(hl[s], sl[s])

\* one iteration of "determine the quantum volume": qubit_v = num, or break
Determine ==
  /\ nb = "quantum_volume" /\ pc = "determine"
  /\ IF HeavyIs(heavy_list, std_list, num - min_qubits + 1)
     THEN /\ qubit_v' = num
          /\ IF num < max_qubits
             THEN pc' = "determine" /\ num' = num + 1
             ELSE pc' = "return" /\ num' = num
     ELSE pc' = "return" /\ UNCHANGED <<qubit_v, num>>
  /\ UNCHANGED <<num_trials, num_shots, min_qubits, max_qubits, idx,
                 heavy_outputs, heavytostd, heavy_list, std_list, qv,
                 model, qprog, results, heavy_temp, last_call, findRest>>

\* qv = 2**qubit_v; return qv
Return ==
  /\ nb = "quantum_volume" /\ pc = "return"
  /\ qv' = Pow(2, qubit_v)
  /\ pc' = "done"
  /\ UNCHANGED <<num_trials, num_shots, min_qubits, max_qubits, num, idx,
                 heavy_outputs, heavytostd, heavy_list, std_list, qubit_v,
                 model, qprog, results, heavy_temp, last_call, findRest>>

Next ==
  \/ NotebookStep
  \/ ForNum
  \/ TrialModel
  \/ TrialSynthesize
  \/ ExecuteQvPreferences
  \/ ExecuteQvExecute
  \/ TrialHeavy
  \/ Stats
  \/ PrintStats
  \/ Determine
  \/ Return

Spec == Init /\ [][Next]_vars

-----------------------------------------------------------------------------
(* qv_model(N) and qv_layer(target, N): building the quantum volume model. *)
(* A qubit is its index 0..N-1 in target; an applied two-qubit unitary is  *)
(* the pair <<a, b>> of the qubits it acts on (the Haar random matrix is   *)
(* the platform's input and is not modelled).                              *)

\* every outcome of random.shuffle(list(range(n)))
Shuffles(n) ==
  {f \in [1..n -> 0..(n - 1)] : \A i, j \in 1..n : f[i] = f[j] => i = j}

\* a = qubit_list[idx]
PairFirst(list, n, i) == list[i + 1]

PairSecond_adjacent(list, n, i) == list[i + 2]

\* b = qubit_list[math.floor(N / 2) + idx]
PairSecond(list, n, i) == list[(n \div 2) + i + 1]

MoreLayers_one_short(l, n) == l < n - 1

\* for idx in range(N): another layer to build
MoreLayers(l, n) == l < n

modelRest == <<nbVars, findVars, shorVars, regVars, optVars>>

InitModel ==
  /\ N \in 1..MaxN
  /\ mpc = "allocate" /\ target = 0 /\ layer = 0 /\ qubit_list = <<>>
  /\ lidx = 0 /\ ops = <<>> /\ unitaries = 0
  /\ IdleNb /\ IdleFind /\ IdleShor /\ IdleReg /\ IdleOpt

\* allocate(N, target)
Allocate ==
  /\ mpc = "allocate"
  /\ target' = N
  /\ mpc' = "for_layer"
  /\ UNCHANGED <<N, layer, qubit_list, lidx, ops, unitaries, modelRest>>

\* qv_layer, step 1: qubit_list = list(range(N)); random.shuffle(qubit_list)
LayerShuffle ==
  /\ mpc = "for_layer" /\ MoreLayers(layer, N)
  /\ qubit_list' \in Shuffles(N)
  /\ lidx' = 0
  /\ ops' = <<>>
  /\ mpc' = "pairs"
  /\ UNCHANGED <<N, target, layer, unitaries, modelRest>>

\* qv_layer, one iteration of for idx in range(math.floor(N / 2)):
\* apply_2qbit_unitary(gate_matrix, target[a], target[b])
ApplyPair ==
  /\ mpc = "pairs" /\ lidx < N \div 2
  /\ ops' = Append(ops, <<PairFirst(qubit_list, N, lidx),
                          PairSecond(qubit_list, N, lidx)>>)
  /\ unitaries' = unitaries + 1
  /\ lidx' = lidx + 1
  /\ UNCHANGED <<N, mpc, target, layer, qubit_list, modelRest>>

\* qv_layer returns: the layer is complete
LayerReturn ==
  /\ mpc = "pairs" /\ lidx = N \div 2
  /\ layer' = layer + 1
  /\ mpc' = "for_layer"
  /\ UNCHANGED <<N, target, qubit_list, lidx, ops, unitaries, modelRest>>

\* return create_model(main)
CreateModel ==
  /\ mpc = "for_layer" /\ ~MoreLayers(layer, N)
  /\ mpc' = "created"
  /\ UNCHANGED <<N, target, layer, qubit_list, lidx, ops, unitaries,
                 modelRest>>

NextModel ==
  \/ Allocate
  \/ LayerShuffle
  \/ ApplyPair
  \/ LayerReturn
  \/ CreateModel

SpecModel == InitModel /\ [][NextModel]_vars

-----------------------------------------------------------------------------
(* Shor notebook: the modular multiplication matrix.  A matrix is the      *)
(* sequence of its rows; entries are integers (the notebook's are 0 and 1  *)
(* stored as complex numbers, and .real is taken).                         *)

Dim(A) == Len(A)

\* np.identity(n)
Identity(n) == [i \in 1..n |-> [j \in 1..n |-> IF i = j THEN 1 ELSE 0]]

\* np.kron(A, B) for square matrices
Kron(A, B) ==
  LET m == Dim(B)
  IN [i \in 1..(Dim(A) * Dim(B)) |-> [j \in 1..(Dim(A) * Dim(B)) |->
        A[((i - 1) \div m) + 1][((j - 1) \div m) + 1]
        * B[((i - 1) % m) + 1][((j - 1) % m) + 1]]]

RECURSIVE RowTimesColumn(_, _, _, _, _)
RowTimesColumn(A, i, B, j, k) ==
  IF k = 0 THEN 0
  ELSE A[i][k] * B[k][j] + RowTimesColumn(A, i, B, j, k - 1)

\* A @ B
MatMul(A, B) ==
  [i \in 1..Dim(A) |-> [j \in 1..Dim(A) |-> RowTimesColumn(A, i, B, j, Dim(A))]]

RECURSIVE RowTimesVector(_, _, _, _)
RowTimesVector(A, i, v, k) ==
  IF k = 0 THEN 0 ELSE A[i][k] * v[k] + RowTimesVector(A, i, v, k - 1)

\* the matrix applied to a state vector
MatVec(A, v) == [i \in 1..Dim(A) |-> RowTimesVector(A, i, v, Dim(A))]

swap == <<<<1, 0, 0, 0>>, <<0, 0, 1, 0>>, <<0, 1, 0, 0>>, <<0, 0, 0, 1>>>>

swap32 == Kron(Identity(4), swap)

swap21 == Kron(Kron(Identity(2), swap), Identity(2))

swap10 == Kron(swap, Identity(4))

PauliX == <<<<0, 1>>, <<1, 0>>>>

x_all == Kron(Kron(PauliX, PauliX), Kron(PauliX, PauliX))

get_modular_multiplication_matrix_no_x ==
  MatMul(MatMul(swap10, swap21), swap32)

\* u = x_all @ swap10 @ swap21 @ swap32
get_modular_multiplication_matrix ==
  MatMul(MatMul(MatMul(x_all, swap10), swap21), swap32)

MODULAR_MUL_UNITARY == get_modular_multiplication_matrix

\* the basis vector |k> of the auxiliary register, k in 0..15
Basis(k) == [i \in 1..Dim(MODULAR_MUL_UNITARY) |-> IF i = k + 1 THEN 1 ELSE 0]

-----------------------------------------------------------------------------
(* Shor notebook: the steps of the algorithm for the number N = 15, for    *)
(* every choice of a, and the auxiliary register under repeated            *)
(* applications of MODULAR_MUL_UNITARY.                                    *)

ShorNumber == 15

DemoA == 7

\* the auxiliary register has one basis state per row of the matrix
AuxDim == Dim(MODULAR_MUL_UNITARY)

RECURSIVE GCD(_, _)
GCD(m, n) == IF n = 0 THEN m ELSE GCD(n, m % n)

f_product(b, e) == (b * e) % ShorNumber

\* f(x) = a^x mod N
f(b, e) == Pow(b, e) % ShorNumber

\* step 3: r is odd or a^(r/2) = -1 mod N
ReturnToStep1(b, p) ==
  p % 2 = 1 \/ f(b, p \div 2) = ShorNumber - 1

shorRest == <<nbVars, findVars, modelVars, regVars, optVars>>

\* step 1 picks 1 < a < N; the auxiliary register holds a basis state |x>
InitShor ==
  /\ a \in 2..(ShorNumber - 1)
  /\ x \in 0..(AuxDim - 1)
  /\ spc = "step1" /\ r = 0 /\ fx = 1 /\ factors = <<>>
  /\ qv_auxilliary = Basis(x) /\ applied = 0
  /\ IdleNb /\ IdleFind /\ IdleModel /\ IdleReg /\ IdleOpt

\* step 1: gcd(a, N) = 1, or a non-trivial factor is found and we are done
Step1 ==
  /\ spc = "step1"
  /\ IF GCD(a, ShorNumber) = 1
     THEN spc' = "step2" /\ factors' = factors
     ELSE spc' = "done" /\ factors' = <<GCD(a, ShorNumber)>>
  /\ UNCHANGED <<a, r, x, fx, qv_auxilliary, applied, shorRest>>

\* step 2: the period of f, the least r > 0 with f(r) = f(0) = 1
Step2 ==
  /\ spc = "step2"
  /\ r' = r + 1
  /\ fx' = f(a, r + 1)
  /\ spc' = IF fx' = 1 THEN "step3" ELSE "step2"
  /\ UNCHANGED <<a, x, factors, qv_auxilliary, applied, shorRest>>

\* step 3: return to step 1, or go on
Step3 ==
  /\ spc = "step3"
  /\ spc' = IF ReturnToStep1(a, r) THEN "return_to_step1" ELSE "step4"
  /\ UNCHANGED <<a, r, x, fx, factors, qv_auxilliary, applied, shorRest>>

\* step 4: gcd(a^(r/2) - 1, N) and gcd(a^(r/2) + 1, N)
Step4 ==
  /\ spc = "step4"
  /\ factors' = <<GCD(Pow(a, r \div 2) - 1, ShorNumber),
                  GCD(Pow(a, r \div 2) + 1, ShorNumber)>>
  /\ spc' = "done"
  /\ UNCHANGED <<a, r, x, fx, qv_auxilliary, applied, shorRest>>

\* unitary(elements=MODULAR_MUL_UNITARY, target=target), once more
ApplyUnitary ==
  /\ spc # "idle" /\ applied < MaxApply
  /\ qv_auxilliary' = MatVec(MODULAR_MUL_UNITARY, qv_auxilliary)
  /\ applied' = applied + 1
  /\ UNCHANGED <<spc, a, r, x, fx, factors, shorRest>>

NextShor ==
  \/ Step1
  \/ Step2
  \/ Step3
  \/ Step4
  \/ ApplyUnitary

SpecShor == InitShor /\ [][NextShor]_vars

-----------------------------------------------------------------------------
(* Shor notebook: the register sizes, for every N *)

RECURSIVE CeilLog2_floor(_)
CeilLog2_floor(n) == IF n < 2 THEN 0 ELSE 1 + CeilLog2_floor(n \div 2)

\* int(np.ceil(np.log2(n))): the least q with 2^q >= n
RECURSIVE CeilLog2From(_, _)
CeilLog2From(n, q) == IF Pow(2, q) >= n THEN q ELSE CeilLog2From(n, q + 1)

CeilLog2(n) == CeilLog2From(n, 0)

regRest == <<nbVars, findVars, modelVars, shorVars, optVars>>

InitReg ==
  /\ shorN \in 2..MaxShorN
  /\ rpc = "counting" /\ num_counting_qubits = 0 /\ num_auxilliary_qubits = 0
  /\ IdleNb /\ IdleFind /\ IdleModel /\ IdleShor /\ IdleOpt

\* num_counting_qubits = int(np.ceil(np.log2(N**2)))
CountingQubits ==
  /\ rpc = "counting"
  /\ num_counting_qubits' = CeilLog2(shorN * shorN)
  /\ rpc' = "auxilliary"
  /\ UNCHANGED <<shorN, num_auxilliary_qubits, regRest>>

\* num_auxilliary_qubits = int(np.ceil(np.log2(N)))
AuxilliaryQubits ==
  /\ rpc = "auxilliary"
  /\ num_auxilliary_qubits' = CeilLog2(shorN)
  /\ rpc' = "done"
  /\ UNCHANGED <<shorN, num_counting_qubits, regRest>>

NextReg ==
  \/ CountingQubits
  \/ AuxilliaryQubits

SpecReg == InitReg /\ [][NextReg]_vars

-----------------------------------------------------------------------------
(* Learning Optimization tutorial: the Pyomo problem, evaluated on the     *)
(* assignments the execution samples (which ones it samples is the         *)
(* platform's choice).                                                     *)

VarLower == 0

VarUpper == 3

\* application_level_object.x: x[1], x[2], integers within the bounds
Assignments == [1..2 -> VarLower..VarUpper]

\* application_level_object.cost
Cost(v) == 3 * v[1] + 2 * v[2]

Constraint_as_narrated(v) == 3 * v[1] + 2 * v[2] >= 2

\* application_level_object.constraint
Constraint(v) == 3 * v[1] + v[2] >= 2

Row(v) == [solution |-> v, cost |-> Cost(v), feasible |-> Constraint(v)]

optRest == <<nbVars, findVars, modelVars, shorVars, regVars>>

InitOpt ==
  /\ opc = "sampling" /\ solution = {}
  /\ IdleNb /\ IdleFind /\ IdleModel /\ IdleShor /\ IdleReg

\* one more sampled assignment among the records of `solution`
Sample ==
  /\ opc = "sampling" /\ Cardinality(solution) < MaxSamples
  /\ \E v \in Assignments : solution' = solution \cup {Row(v)}
  /\ UNCHANGED <<opc, optRest>>

NextOpt == Sample

SpecOpt == InitOpt /\ [][NextOpt]_vars

-----------------------------------------------------------------------------
(* Properties of find_qv and heavy_outputs_prob (specification Spec) *)

QubitRange == min_qubits..max_qubits

Passes(n) == HeavyIs(heavy_list, std_list, n - min_qubits + 1)

\* C1: find_qv returns 2^q where q is the largest number of qubits in
\* min_qubits..max_qubits for which the averaged heavy output probability
\* minus 2 times the standard deviation is at least 2/3 (taken on the values
\* find_qv itself stored in heavy_list and std_list).
C1_ReturnsLargestPassing ==
  (nb = "quantum_volume" /\ pc = "done") =>
    \A q \in QubitRange :
      (Passes(q) /\ \A p \in QubitRange : Passes(p) => p <= q)
        => qv = Pow(2, q)

\* the result of the last call of heavy_outputs_prob is in heavy_temp
AfterHeavy ==
  /\ nb = "quantum_volume"
  /\ (pc = "qv_model" /\ idx > 0) \/ pc = "stats"

\* C2: heavy_outputs_prob(results) returns the share of all shots that fell
\* on states whose count is greater than the median of the counts, hence a
\* probability in [0, 1].
C2_HeavyOutputsProbIsShare ==
  AfterHeavy =>
    /\ heavy_temp * SumSeq(results.counts)
         = AboveMedianLoop(results.counts, Median2(results.counts))
    /\ 0 <= heavy_temp /\ heavy_temp <= 1

\* the standard deviation of the per-trial heavy output probabilities
\* trials[i] / n_shots
ProbabilityStd(trials, n_shots) == SurdDiv(np_std(trials), n_shots)

\* C5: the standard deviation stored in std_list for a qubit number is the
\* standard deviation of the num_trials per-trial heavy output probabilities
\* (heavy count of a trial divided by num_shots).
C5_StdOfTrialProbabilities ==
  (nb = "quantum_volume" /\ pc = "print") =>
    SurdEq(std_list[num - min_qubits + 1],
           ProbabilityStd(heavytostd, num_shots))

\* C10: synthesize is only called on a model constructed earlier in the
\* notebook (in find_qv: in the same trial), and execute and show only on a
\* quantum program that came from a preceding synthesize, possibly through
\* set_quantum_program_execution_preferences.
C10_CallOrder ==
  /\ last_call.op = "synthesize" =>
       /\ last_call.arg.kind = "model"
       /\ last_call.arg.origin \in Constructors
       /\ nb = "quantum_volume" => last_call.arg.tag = <<num, idx>>
  /\ last_call.op \in {"execute", "show",
                       "set_quantum_program_execution_preferences"} =>
       /\ last_call.arg.kind = "qprog"
       /\ last_call.arg.origin = "synthesize"
       /\ (nb = "quantum_volume" /\ pc \in {"execute", "heavy"})
            => last_call.arg.tag = <<num, idx>>

\* the second trial of a qubit number has executed its own program
C10_Witness ==
  /\ nb = "quantum_volume" /\ pc = "heavy" /\ idx = 1
  /\ last_call = Call("execute", Value("qprog", "synthesize", <<num, 1>>))

-----------------------------------------------------------------------------
(* Properties of qv_layer and qv_model (specification SpecModel) *)

Qubits == 0..(N - 1)

OpsOn(q) == {i \in 1..Len(ops) : ops[i][1] = q \/ ops[i][2] = q}

LayerDone == mpc = "for_layer" /\ layer > 0

\* C3: for N >= 2 and every shuffle, a call of qv_layer applies exactly
\* floor(N/2) two-qubit unitaries, each on two distinct qubits, no qubit in
\* more than one; N even: every qubit is operated on; N odd: exactly one is
\* not.
C3_LayerPairsQubits ==
  (LayerDone /\ N >= 2) =>
    /\ Len(ops) = N \div 2
    /\ \A i \in 1..Len(ops) :
         ops[i][1] # ops[i][2] /\ ops[i][1] \in Qubits /\ ops[i][2] \in Qubits
    /\ \A q \in Qubits : Cardinality(OpsOn(q)) <= 1
    /\ N % 2 = 0 => \A q \in Qubits : OpsOn(q) # {}
    /\ N % 2 = 1 => Cardinality({q \in Qubits : OpsOn(q) = {}}) = 1

\* a finished layer on 4 qubits: two unitaries, on {3, 1} and on {0, 2}
C3_Witness ==
  LayerDone /\ N = 4 /\ ops = <<<<3, 1>>, <<0, 2>>>>

\* C4: the model built by qv_model(N) allocates N qubits and contains
\* exactly N layers, hence N * floor(N/2) applications of
\* apply_2qbit_unitary, all on the N-qubit target.
C4_ModelHasNLayers ==
  /\ mpc = "created" =>
       target = N /\ layer = N /\ unitaries = N * (N \div 2)
  /\ \A i \in 1..Len(ops) :
       ops[i][1] \in 0..(target - 1) /\ ops[i][2] \in 0..(target - 1)

\* the model for 3 qubits: 3 layers of one unitary each
C4_Witness ==
  mpc = "created" /\ N = 3 /\ target = 3 /\ layer = 3 /\ unitaries = 3

-----------------------------------------------------------------------------
(* Properties of the Shor notebook (specifications SpecShor and SpecReg) *)

\* C6: the matrix returned by get_modular_multiplication_matrix() maps the
\* basis vector of x to the basis vector of (7 * x) mod 15, for every x in
\* 1..14.
C6_MatrixMultipliesBySeven ==
  (applied = 1 /\ x \in 1..(ShorNumber - 1)) =>
    qv_auxilliary = Basis((DemoA * x) % ShorNumber)

\* |13> after one application: |1>, as 7 * 13 = 91 = 6 * 15 + 1
C6_Witness ==
  applied = 1 /\ x = 13 /\ qv_auxilliary = Basis(1)

\* C7: ceil(log2(N^2)) is a q with N^2 <= 2^q < 2 * N^2 for every N >= 2;
\* for N = 15 the sizes are 8 counting qubits and 4 auxiliary qubits, and
\* 2^4 values are enough to encode 15.
C7_RegisterSizes ==
  rpc = "done" =>
    /\ shorN * shorN <= Pow(2, num_counting_qubits)
    /\ Pow(2, num_counting_qubits) < 2 * shorN * shorN
    /\ shorN = ShorNumber =>
         /\ num_counting_qubits = 8
         /\ num_auxilliary_qubits = 4
         /\ ShorNumber <= Pow(2, num_auxilliary_qubits) - 1

\* the notebook's N = 15 with both sizes computed
C7_Witness ==
  /\ rpc = "done" /\ shorN = ShorNumber
  /\ num_counting_qubits = 8 /\ num_auxilliary_qubits = 4

\* C8: for a = 7 and N = 15 the classical part succeeds: 7 is co-prime with
\* 15, the period of f(x) = 7^x mod 15 is 4, step 3 does not return to step
\* 1, and step 4 yields gcd(7^2 - 1, 15) = 3 and gcd(7^2 + 1, 15) = 5, whose
\* product is 15.
C8_ClassicalPartSucceeds ==
  a = DemoA =>
    /\ spc # "return_to_step1"
    /\ spc \in {"step2", "step3", "step4", "done"} => GCD(a, ShorNumber) = 1
    /\ spc \in {"step3", "step4", "done"} =>
         /\ r = 4
         /\ r % 2 = 0
         /\ f(a, r \div 2) # ShorNumber - 1
    /\ spc = "done" =>
         /\ factors = <<3, 5>>
         /\ factors[1] * factors[2] = ShorNumber

\* the run for a = 7 has ended with both factors
C8_Witness ==
  a = DemoA /\ spc = "done" /\ r = 4 /\ factors = <<3, 5>>

-----------------------------------------------------------------------------
(* Properties of the Learning Optimization problem (specification SpecOpt) *)

=============================================================================
